---- MODULE Spec2Model ----
(***************************************************************************)
(* Model of scripts/update_badges.py: fetch the Credly badges, group and   *)
(* order them by issuer, render the section and splice it between the two  *)
(* marker comments of README.md.                                           *)
(*                                                                         *)
(* Python strings are sequences of one-character strings, so that find,    *)
(* slicing, concatenation and comparison are computed as Python computes   *)
(* them.  JSON values are tagged records: Str, Null, Obj (a dict, as a     *)
(* function from keys to values) and Arr (a list).  A raised exception is  *)
(* the tagged value Raise(name); it propagates through the operators the   *)
(* way it propagates through the Python expression.                        *)
(***************************************************************************)
EXTENDS Integers, Sequences, FiniteSets

(***************************** bounds **************************************)
\* marker occurrences in the initial README.md
MaxMarkers == 2
\* badge records in the "data" array of a response of the pipeline
MaxFetch == 1
\* invocations of the script
MaxRuns == 2
\* badge records handed to group_badges in SpecGroup
MaxLen == 3

(***************************** constants ***********************************)
START_MARKER == <<"<","!","-","-"," ","C","R","E","D","L","Y","_","B","A","D","G","E","S","_","S","T","A","R","T"," ","-","-",">">>
END_MARKER == <<"<","!","-","-"," ","C","R","E","D","L","Y","_","B","A","D","G","E","S","_","E","N","D"," ","-","-",">">>

LinuxFoundation == <<"T","h","e"," ","L","i","n","u","x"," ","F","o","u","n","d","a","t","i","o","n">>
IBM == <<"I","B","M">>
Isovalent == <<"I","s","o","v","a","l","e","n","t">>
ISSUER_ORDER == <<LinuxFoundation, IBM, Isovalent>>

Other == <<"O","t","h","e","r">>
Heading == <<"#","#","#"," ","C","e","r","t","i","f","i","c","a","t","e","s"," ","&"," ","B","a","d","g","e","s">>
AnchorOpen == <<"<","a"," ","h","r","e","f","=","\"","h","t","t","p","s",":","/","/","w","w","w",".","c","r","e","d","l","y",".","c","o","m","/","b","a","d","g","e","s","/">>
AnchorMid == <<"/","p","u","b","l","i","c","_","u","r","l","\"",">">>
ImgOpen == <<"<","i","m","g"," ","h","e","i","g","h","t","=","\"","9","0","\""," ","w","i","d","t","h","=","\"","9","0","\""," ","s","r","c","=","\"">>
ImgAlt == <<"\""," ","a","l","t","=","\"">>
ImgClose == <<"\"","/",">","<","/","a",">">>
NoChanges == "No changes needed."
Updated == "README.md updated with badges."
Keeping == "Keeping existing README content."

(***************************** Python strings ******************************)
\* the characters of code points 32..126, in code point order (GRAVE stands
\* for code point 96, which a string literal cannot hold)
AsciiTable == <<" ","!","\"","#","$","%","&","'","(",")","*","+",",","-",".","/","0","1","2","3","4","5","6","7","8","9",":",";","<","=",">","?","@","A","B","C","D","E","F","G","H","I","J","K","L","M","N","O","P","Q","R","S","T","U","V","W","X","Y","Z","[","\\","]","^","_","GRAVE","a","b","c","d","e","f","g","h","i","j","k","l","m","n","o","p","q","r","s","t","u","v","w","x","y","z","{","|","}","~">>

\* ord(c)
Ord(c) == IF c = "\n" THEN 10 ELSE 31 + (CHOOSE i \in DOMAIN AsciiTable : AsciiTable[i] = c)

\* a < b on str: lexicographic by code point, a proper prefix is smaller
RECURSIVE StrLess(_, _)
StrLess(a, b) ==
  IF b = <<>> THEN FALSE
  ELSE IF a = <<>> THEN TRUE
  ELSE IF Head(a) = Head(b) THEN StrLess(Tail(a), Tail(b))
  ELSE Ord(Head(a)) < Ord(Head(b))

\* s[i:i+len(pat)] == pat, i counted from 0
MatchAt(s, pat, i) ==
  /\ i + Len(pat) <= Len(s)
  /\ \A j \in 1..Len(pat) : s[i + j] = pat[j]

\* s.find(pat): the lowest index (from 0) where pat occurs, -1 when it does not
find(s, pat) ==
  LET hits == {i \in 0..(Len(s) - Len(pat)) : MatchAt(s, pat, i)}
  IN IF hits = {} THEN -1 ELSE CHOOSE i \in hits : \A j \in hits : i <= j

\* s[:n] and s[n:] for 0 <= n
SliceTo(s, n) == SubSeq(s, 1, IF n < Len(s) THEN n ELSE Len(s))
SliceFrom(s, n) == SubSeq(s, n + 1, Len(s))

\* sep.join(parts)
RECURSIVE Join(_, _)
Join(sep, parts) ==
  IF parts = <<>> THEN <<>>
  ELSE IF Len(parts) = 1 THEN parts[1]
  ELSE parts[1] \o sep \o Join(sep, Tail(parts))

Reverse(s) == [i \in 1..Len(s) |-> s[Len(s) + 1 - i]]

(***************************** JSON values *********************************)
Str(s) == [t |-> "str", v |-> s]
Null == [t |-> "null"]
Obj(f) == [t |-> "obj", v |-> f]
Arr(s) == [t |-> "arr", v |-> s]
Raise(e) == [t |-> "exc", v |-> e]
IsExc(x) == x.t = "exc"

\* v[k] for a str key k; an exception raised while evaluating v propagates
GetItem(v, k) ==
  IF IsExc(v) THEN v
  ELSE IF v.t = "obj" THEN (IF k \in DOMAIN v.v THEN v.v[k] ELSE Raise("KeyError"))
  ELSE Raise("TypeError")

\* v[i] for an int index i >= 0; the keys of a JSON object are never ints
GetIndex(v, i) ==
  IF IsExc(v) THEN v
  ELSE IF v.t = "arr" THEN (IF i < Len(v.v) THEN v.v[i + 1] ELSE Raise("IndexError"))
  ELSE IF v.t = "str" THEN (IF i < Len(v.v) THEN Str(<<v.v[i + 1]>>) ELSE Raise("IndexError"))
  ELSE IF v.t = "obj" THEN Raise("KeyError")
  ELSE Raise("TypeError")

\* f"{v}" for a str or None
Format(v) == IF v.t = "str" THEN v.v ELSE <<"N","o","n","e">>

(***************************** issuer_name *********************************)
issuer_name(badge) ==
  LET r == GetItem(GetItem(GetIndex(GetItem(GetItem(GetItem(badge,
             "badge_template"), "issuer"), "entities"), 0), "entity"), "name")
  IN IF IsExc(r) /\ r.v \in {"KeyError", "IndexError"} THEN Str(Other) ELSE r

(***************************** group_badges ********************************)
\* groups: the dict as the sequence of its items [k, v] in insertion order
HasKey(groups, k) == \E i \in DOMAIN groups : groups[i].k = k

\* groups[issuer] = [badge]: the list is replaced, not extended
SetDefaultReplace(groups, k, badge) ==
  IF HasKey(groups, k)
  THEN [i \in DOMAIN groups |->
          IF groups[i].k = k THEN [k |-> k, v |-> <<badge>>] ELSE groups[i]]
  ELSE Append(groups, [k |-> k, v |-> <<badge>>])

\* groups.setdefault(issuer, []).append(badge)
SetDefaultAppend(groups, k, badge) ==
  IF HasKey(groups, k)
  THEN [i \in DOMAIN groups |->
          IF groups[i].k = k THEN [k |-> k, v |-> Append(groups[i].v, badge)]
          ELSE groups[i]]
  ELSE Append(groups, [k |-> k, v |-> <<badge>>])

\* the loop over badges; a list or dict as issuer is unhashable
RECURSIVE Accumulate(_, _)
Accumulate(bs, groups) ==
  IF bs = <<>> THEN [t |-> "groups", v |-> groups]
  ELSE LET issuer == issuer_name(Head(bs))
       IN IF IsExc(issuer) THEN issuer
          ELSE IF issuer.t \in {"arr", "obj"} THEN Raise("TypeError")
          ELSE Accumulate(Tail(bs), SetDefaultAppend(groups, issuer, Head(bs)))

\* b.get("issued_at_date", "")
DateKey(b) == IF "issued_at_date" \in DOMAIN b.v THEN b.v["issued_at_date"] ELSE Str(<<>>)

\* stable ascending sort of [key, val] pairs on a str key: x goes before the
\* first element whose key is greater
RECURSIVE InsertByKey(_, _)
InsertByKey(sorted, x) ==
  IF sorted = <<>> THEN <<x>>
  ELSE IF StrLess(x.key, Head(sorted).key) THEN <<x>> \o sorted
  ELSE <<Head(sorted)>> \o InsertByKey(Tail(sorted), x)

RECURSIVE StableSort(_)
StableSort(s) ==
  IF s = <<>> THEN <<>>
  ELSE InsertByKey(StableSort(SubSeq(s, 1, Len(s) - 1)), s[Len(s)])

Vals(pairs) == [i \in DOMAIN pairs |-> pairs[i].val]
DatePairs(g) == [i \in DOMAIN g |-> [key |-> DateKey(g[i]).v, val |-> g[i]]]

\* group.sort(key=...); group.reverse(): descending, equal dates reversed
SortThenReverse(g) ==
  IF Len(g) >= 2 /\ \E i \in DOMAIN g : DateKey(g[i]).t # "str"
  THEN Raise("TypeError")
  ELSE IF Len(g) < 2 THEN [t |-> "list", v |-> g]
  ELSE [t |-> "list", v |-> Reverse(Vals(StableSort(DatePairs(g))))]

\* group.sort(key=lambda b: b.get("issued_at_date", ""), reverse=True):
\* list.sort reverses the list, sorts it ascending and stably, and reverses
\* the result; two keys are compared as soon as the list has two elements,
\* and a key that is None then raises TypeError; a shorter list is left as is
SortGroup(g) ==
  IF Len(g) >= 2 /\ \E i \in DOMAIN g : DateKey(g[i]).t # "str"
  THEN Raise("TypeError")
  ELSE IF Len(g) < 2 THEN [t |-> "list", v |-> g]
  ELSE [t |-> "list", v |-> Reverse(Vals(StableSort(DatePairs(Reverse(g)))))]

\* for group in groups.values(): group.sort(...)
SortGroups(groups) ==
  IF \E i \in DOMAIN groups : IsExc(SortGroup(groups[i].v))
  THEN Raise("TypeError")
  ELSE [t |-> "groups",
        v |-> [i \in DOMAIN groups |-> [k |-> groups[i].k, v |-> SortGroup(groups[i].v).v]]]

\* the items of groups whose key is name (at most one)
ItemsOf(groups, name) == SelectSeq(groups, LAMBDA it : it.k = Str(name))

\* known = {name: groups.pop(name) for name in ISSUER_ORDER if name in groups}
RECURSIVE Known(_, _)
Known(groups, order) ==
  IF order = <<>> THEN <<>>
  ELSE ItemsOf(groups, Head(order)) \o Known(groups, Tail(order))

\* groups after the pops: the items whose key is not in ISSUER_ORDER
Remainder(groups) ==
  SelectSeq(groups, LAMBDA it : \A i \in DOMAIN ISSUER_ORDER : it.k # Str(ISSUER_ORDER[i]))

NamePairs(items) == [i \in DOMAIN items |-> [key |-> items[i].k.v, val |-> items[i]]]

\* {**known, **groups}: the remaining groups are left in insertion order
OrderGroupsUnsorted(groups) ==
  [t |-> "groups", v |-> Known(groups, ISSUER_ORDER) \o Remainder(groups)]

\* known, then unknown = dict(sorted(groups.items())), merged in that order;
\* the keys are distinct, so sorted compares keys only, and a None key
\* compared with another key raises TypeError
OrderGroups(groups) ==
  LET rest == Remainder(groups)
  IN IF Len(rest) >= 2 /\ \E i \in DOMAIN rest : rest[i].k.t # "str"
     THEN Raise("TypeError")
     ELSE IF Len(rest) < 2
     THEN [t |-> "groups", v |-> Known(groups, ISSUER_ORDER) \o rest]
     ELSE [t |-> "groups",
           v |-> Known(groups, ISSUER_ORDER) \o Vals(StableSort(NamePairs(rest)))]

\* group_badges(badges) for badges a list or None (None is not iterable)
group_badges(bs) ==
  IF bs.t # "arr" THEN Raise("TypeError")
  ELSE LET acc == Accumulate(bs.v, <<>>)
       IN IF IsExc(acc) THEN acc
          ELSE LET sorted == SortGroups(acc.v)
               IN IF IsExc(sorted) THEN sorted ELSE OrderGroups(sorted.v)

(***************************** badge_html, render_section ******************)
badge_html(badge) ==
  LET badge_id == GetItem(badge, "id")
      tmpl == GetItem(badge, "badge_template")
      name == GetItem(tmpl, "name")
      image_url == GetItem(tmpl, "image_url")
  IN IF IsExc(badge_id) THEN badge_id
     ELSE IF IsExc(name) THEN name
     ELSE IF IsExc(image_url) THEN image_url
     ELSE Str(AnchorOpen \o Format(badge_id) \o AnchorMid
              \o ImgOpen \o Format(image_url) \o ImgAlt \o Format(name) \o ImgClose)

\* the four lines appended for one group, or the exception of its first
\* badge whose badge_html raises
GroupLines(item) ==
  LET htmls == [i \in DOMAIN item.v |-> badge_html(item.v[i])]
      bad == {i \in DOMAIN htmls : IsExc(htmls[i])}
  IN IF bad # {}
     THEN htmls[CHOOSE i \in bad : \A j \in bad : i <= j]
     ELSE [t |-> "lines",
           v |-> << <<"*","*">> \o Format(item.k) \o <<"*","*">>,
                    <<>>,
                    Join(<<" ">>, [i \in DOMAIN htmls |-> htmls[i].v]),
                    <<>> >>]

RECURSIVE AllLines(_)
AllLines(grouped) ==
  IF grouped = <<>> THEN [t |-> "lines", v |-> <<>>]
  ELSE LET first == GroupLines(Head(grouped))
       IN IF IsExc(first) THEN first
          ELSE LET rest == AllLines(Tail(grouped))
               IN IF IsExc(rest) THEN rest
                  ELSE [t |-> "lines", v |-> first.v \o rest.v]

render_section(grouped) ==
  LET body == AllLines(grouped)
  IN IF IsExc(body) THEN body
     ELSE Str(Join(<<"\n">>, <<Heading, <<>> >> \o body.v))

(***************************** update_readme *******************************)
\* start == -1 or end == -1
MarkersMissing(start, end) == start = -1 \/ end = -1

\* the tail is taken after the end marker instead of from it
NewContentPastEnd(doc, start, end, section_content) ==
  SliceTo(doc, start + Len(START_MARKER)) \o <<"\n">> \o section_content
    \o SliceFrom(doc, end + Len(END_MARKER))

\* readme[: start + len(START_MARKER)] + "\n" + section_content + readme[end:]
NewContent(doc, start, end, section_content) ==
  SliceTo(doc, start + Len(START_MARKER)) \o <<"\n">> \o section_content
    \o SliceFrom(doc, end)

(***************************** fetch_badges, main **************************)
\* the reply of urlopen: an error it raises, or a body with what json.loads
\* makes of it (a JSON value, or JSONDecodeError)
Failed(e) == [kind |-> "error", exc |-> e]
Body(j) == [kind |-> "body", json |-> j]

fetch_badges(resp) ==
  IF resp.kind = "error" THEN Raise(resp.exc) ELSE GetItem(resp.json, "data")

\* except urllib.error.URLError, TimeoutError only
CaughtNetworkOnly(e) == e \in {"URLError", "TimeoutError"}

\* except Exception: every exception class raised here derives from Exception
Caught(e) ==
  e \in {"URLError", "TimeoutError", "JSONDecodeError", "KeyError", "IndexError", "TypeError"}

(***************************** inputs **************************************)
SeqsUpTo(S, n) == UNION {[1..k -> S] : k \in 0..n}

Date2024 == <<"2","0","2","4","-","0","5","-","0","1">>
Date2023 == <<"2","0","2","3","-","1","1","-","3","0">>
Acme == <<"A","c","m","e">>
Zeta == <<"Z","e","t","a">>
Url == <<"h","t","t","p","s",":","/","/","i","/","a",".","p","n","g">>
CertName == <<"C","e","r","t">>

Entities(n) == Arr(<<Obj([entity |-> Obj([name |-> n])])>>)
Template(n, issuer) == Obj([name |-> Str(n), image_url |-> Str(Url), issuer |-> issuer])
Dated(id, date, issuer) ==
  Obj([id |-> Str(id), issued_at_date |-> date, badge_template |-> Template(CertName, issuer)])
Undated(id, issuer) ==
  Obj([id |-> Str(id), badge_template |-> Template(CertName, issuer)])
Issued(id, date, n) == Dated(id, Str(date), Obj([entities |-> Entities(Str(n))]))

\* badge records of the pipeline: a well-formed one, one whose template name
\* holds the end marker, one without "id"
BadgeMarker ==
  Obj([id |-> Str(<<"2">>), issued_at_date |-> Str(Date2023),
       badge_template |-> Template(END_MARKER, Obj([entities |-> Entities(Str(Acme))]))])
BadgeNoId ==
  Obj([issued_at_date |-> Str(Date2024),
       badge_template |-> Template(CertName, Obj([entities |-> Entities(Str(IBM))]))])
PipelineBadges == {Issued(<<"1">>, Date2024, IBM), BadgeMarker, BadgeNoId}

Responses ==
  {Failed("URLError"), Failed("TimeoutError"), Body(Raise("JSONDecodeError")),
   Body(Obj([errors |-> Str(<<"x">>)])), Body(Arr(<<>>)), Body(Obj([data |-> Null]))}
  \cup {Body(Obj([data |-> Arr(s)])) : s \in SeqsUpTo(PipelineBadges, MaxFetch)}

\* badge records handed to group_badges: issuers of and outside ISSUER_ORDER,
\* equal, different, absent and null dates, and issuer descriptors cut short
\* at each step of the traversal
GroupBadges ==
  {Issued(<<"1">>, Date2024, IBM), Issued(<<"2">>, Date2024, IBM),
   Issued(<<"3">>, Date2023, IBM),
   Undated(<<"4">>, Obj([entities |-> Entities(Str(IBM))])),
   Dated(<<"5">>, Null, Obj([entities |-> Entities(Str(IBM))])),
   Issued(<<"6">>, Date2023, Isovalent), Issued(<<"7">>, Date2024, LinuxFoundation),
   Issued(<<"8">>, Date2024, Zeta), Issued(<<"9">>, Date2023, Acme),
   Obj([id |-> Str(<<"a">>), issued_at_date |-> Str(Date2024)]),
   Obj([id |-> Str(<<"b">>), badge_template |-> Obj([name |-> Str(CertName)])]),
   Dated(<<"c">>, Str(Date2023), Obj([entities |-> Arr(<<>>)])),
   Dated(<<"d">>, Str(Date2023), Obj([entities |-> Arr(<<Obj([entity |-> Obj([id |-> Str(<<"e">>)])])>>)])),
   Dated(<<"e">>, Str(Date2024), Null),
   Dated(<<"f">>, Str(Date2024), Obj([entities |-> Entities(Null)]))}

\* README.md: the markers ms[1], ms[2], ... in that order, each between
\* distinct texts
Marker(m) == IF m = "S" THEN START_MARKER ELSE END_MARKER
Gap(i) ==
  IF i = 0 THEN <<"X","\n">>
  ELSE IF i = 1 THEN <<"\n","O","L","D","\n">>
  ELSE IF i = 2 THEN <<"\n","Y","\n">>
  ELSE <<"\n","Z","\n">>
RECURSIVE DocFrom(_, _)
DocFrom(ms, i) ==
  IF i > Len(ms) THEN <<>> ELSE Marker(ms[i]) \o Gap(i) \o DocFrom(ms, i + 1)
Documents == {Gap(0) \o DocFrom(ms, 1) : ms \in SeqsUpTo({"S", "E"}, MaxMarkers)}

(***************************** state ***************************************)
VARIABLES
  readme,    \* the text of README.md
  pc,        \* position in main: "main", "fetched", "grouped", "rendered", "exited"
  badges,    \* main's badges
  grouped,   \* main's grouped: the items of the dict, in order
  section,   \* main's section
  status,    \* exit status of the process, -1 while it runs
  err,       \* why it ended: "none", "fetch", "markers" or the uncaught exception
  out,       \* last line written to stdout
  runs,      \* invocations so far
  before,    \* README.md when this invocation started
  wrote,     \* this invocation called write_text
  called,    \* functions this invocation has called
  prev       \* the previous invocation: its badges, and whether update_readme returned

vars == <<readme, pc, badges, grouped, section, status, err, out, runs, before, wrote, called, prev>>

Unset == [t |-> "unset"]

Fresh ==
  /\ grouped = Unset /\ section = Unset /\ status = -1 /\ err = "none" /\ out = ""
  /\ runs = 1 /\ wrote = FALSE /\ prev = Unset

Init ==
  /\ readme \in Documents
  /\ before = readme
  /\ pc = "main" /\ badges = Unset /\ called = {}
  /\ Fresh

\* group_badges on its own: any list of badge records
InitGroup ==
  /\ readme = Gap(0)
  /\ before = readme
  /\ pc = "fetched" /\ badges \in {Arr(s) : s \in SeqsUpTo(GroupBadges, MaxLen)}
  /\ called = {"fetch_badges"}
  /\ Fresh

\* the process ends: sys.exit(code), return from main (0) or an uncaught
\* exception (the interpreter exits with 1)
Exit(code, why) ==
  /\ pc' = "exited" /\ status' = code /\ err' = why

\* main, lines 94-99
Fetch ==
  /\ pc = "main"
  /\ \E resp \in Responses :
       LET r == fetch_badges(resp)
       IN IF IsExc(r)
          THEN IF Caught(r.v)
               THEN Exit(0, "fetch") /\ out' = Keeping /\ badges' = badges
               ELSE Exit(1, r.v) /\ UNCHANGED <<out, badges>>
          ELSE pc' = "fetched" /\ badges' = r /\ UNCHANGED <<status, err, out>>
  /\ called' = called \cup {"fetch_badges"}
  /\ UNCHANGED <<readme, grouped, section, runs, before, wrote, prev>>

\* main, line 101
Group ==
  /\ pc = "fetched"
  /\ LET r == group_badges(badges)
     IN IF IsExc(r)
        THEN Exit(1, r.v) /\ grouped' = grouped
        ELSE pc' = "grouped" /\ grouped' = r.v /\ UNCHANGED <<status, err>>
  /\ called' = called \cup {"group_badges"}
  /\ UNCHANGED <<readme, badges, section, out, runs, before, wrote, prev>>

\* main, line 102
Render ==
  /\ pc = "grouped"
  /\ LET r == render_section(grouped)
     IN IF IsExc(r)
        THEN Exit(1, r.v) /\ section' = section
        ELSE pc' = "rendered" /\ section' = r.v /\ UNCHANGED <<status, err>>
  /\ called' = called \cup {"render_section"}
  /\ UNCHANGED <<readme, badges, grouped, out, runs, before, wrote, prev>>

\* main, line 103: update_readme(section), then main returns
Update ==
  /\ pc = "rendered"
  /\ LET start == find(readme, START_MARKER)
         end == find(readme, END_MARKER)
     IN IF MarkersMissing(start, end)
        THEN Exit(1, "markers") /\ UNCHANGED <<readme, wrote, out>>
        ELSE LET new_content == NewContent(readme, start, end, section)
             IN /\ Exit(0, "none")
                /\ IF new_content = readme
                   THEN out' = NoChanges /\ UNCHANGED <<readme, wrote>>
                   ELSE readme' = new_content /\ wrote' = TRUE /\ out' = Updated
  /\ called' = called \cup {"update_readme"}
  /\ UNCHANGED <<badges, grouped, section, runs, before, prev>>

\* the script is run again
Invoke ==
  /\ pc = "exited" /\ runs < MaxRuns
  /\ pc' = "main" /\ runs' = runs + 1
  /\ prev' = [data |-> badges, returned |-> ("update_readme" \in called /\ err = "none")]
  /\ before' = readme
  /\ badges' = Unset /\ grouped' = Unset /\ section' = Unset
  /\ status' = -1 /\ err' = "none" /\ out' = "" /\ wrote' = FALSE /\ called' = {}
  /\ UNCHANGED readme

Next == Fetch \/ Group \/ Render \/ Update \/ Invoke
Spec == Init /\ [][Next]_vars

NextGroup == Group
SpecGroup == InitGroup /\ [][NextGroup]_vars

(***************************** properties **********************************)
HasBoth(doc) == find(doc, START_MARKER) # -1 /\ find(doc, END_MARKER) # -1
Count(b, seq) == Cardinality({i \in DOMAIN seq : seq[i] = b})
Elems(seq) == {seq[i] : i \in DOMAIN seq}
UpdateRan == pc = "exited" /\ "update_readme" \in called

\* C1: whenever update_readme ran on a document whose first start marker
\* lies after its first end marker, or that lacks a marker, it aborted with
\* the missing-marker error and the document is what it was before the run.
MarkerSafety ==
  (UpdateRan /\ (~HasBoth(before) \/ find(before, START_MARKER) > find(before, END_MARKER)))
    => (err = "markers" /\ readme = before /\ ~wrote)

\* C2: when a run ended without fetch_badges returning, only fetch_badges
\* was called, the document is what it was before the run, nothing was
\* written and the exit status is 0.
FetchFailureKeepsDocument ==
  (pc = "exited" /\ badges = Unset)
    => (called = {"fetch_badges"} /\ readme = before /\ ~wrote /\ status = 0)

FetchFailureSeen ==
  pc = "exited" /\ badges = Unset /\ err = "fetch" /\ out = Keeping /\ HasBoth(readme)

\* C3: when update_readme ran on a document with both markers, in a run whose
\* fetched data equals that of the previous run, and update_readme returned
\* in that previous run, this run wrote nothing and said "No changes needed.".
Idempotence ==
  (UpdateRan /\ HasBoth(before) /\ prev # Unset /\ prev.returned /\ prev.data = badges)
    => (~wrote /\ readme = before /\ out = NoChanges)

\* C4: a run ends with a non-zero exit status exactly when update_readme
\* found a marker missing.
ExitStatus ==
  pc = "exited" => (status # 0 <=> err = "markers")

Step(v, k) == IF v.t = "obj" /\ k \in DOMAIN v.v THEN v.v[k] ELSE Unset
First(v) == IF v.t = "arr" /\ Len(v.v) > 0 THEN v.v[1] ELSE Unset
PathEnd(b) ==
  Step(Step(First(Step(Step(Step(b, "badge_template"), "issuer"), "entities")), "entity"), "name")

\* C5: once group_badges has run on a list of badge records, issuer_name of
\* every record is the name at the end of the path
\* badge_template.issuer.entities[0].entity.name when the path exists and
\* "Other" otherwise; it is never an exception.
IssuerNeverFails ==
  ("group_badges" \in called /\ badges.t = "arr") =>
    \A i \in DOMAIN badges.v :
      LET r == issuer_name(badges.v[i])
      IN /\ ~IsExc(r)
         /\ r = (IF PathEnd(badges.v[i]) # Unset THEN PathEnd(badges.v[i]) ELSE Str(Other))

TextBeforeStart(doc) == SliceTo(doc, find(doc, START_MARKER))
TextFromEnd(doc) == SliceFrom(doc, find(doc, END_MARKER))

\* C6: when update_readme ran on a document with both markers, the text
\* before the first start marker and the text from the first end marker on
\* are what they were before the run.
FramePreserved ==
  (UpdateRan /\ HasBoth(before))
    => (/\ HasBoth(readme)
        /\ TextBeforeStart(readme) = TextBeforeStart(before)
        /\ TextFromEnd(readme) = TextFromEnd(before))

Occurrences(b) ==
  LET n[i \in 0..Len(grouped)] == IF i = 0 THEN 0 ELSE n[i - 1] + Count(b, grouped[i].v)
  IN n[Len(grouped)]

\* C7: when group_badges returns, its keys are distinct, every badge record
\* occurs in the groups as often as in the input, and every member of a group
\* has the group's key as its issuer_name.
GroupingComplete ==
  pc = "grouped" =>
    /\ \A i, j \in DOMAIN grouped : grouped[i].k = grouped[j].k => i = j
    /\ \A b \in Elems(badges.v) : Occurrences(b) = Count(b, badges.v)
    /\ \A i \in DOMAIN grouped :
         \A b \in Elems(grouped[i].v) :
           b \in Elems(badges.v) /\ issuer_name(b) = grouped[i].k

GroupingSeen ==
  /\ pc = "grouped" /\ Len(badges.v) = 3 /\ Len(grouped) = 2
  /\ issuer_name(badges.v[1]) = issuer_name(badges.v[3])
  /\ issuer_name(badges.v[1]) # issuer_name(badges.v[2])

Rank(k) ==
  IF \E i \in DOMAIN ISSUER_ORDER : k = Str(ISSUER_ORDER[i])
  THEN CHOOSE i \in DOMAIN ISSUER_ORDER : k = Str(ISSUER_ORDER[i])
  ELSE 0
Precedes(a, b) ==
  IF Rank(a) # 0 /\ Rank(b) # 0 THEN Rank(a) < Rank(b)
  ELSE IF Rank(a) # 0 THEN TRUE
  ELSE IF Rank(b) # 0 THEN FALSE
  ELSE a.t = "str" /\ b.t = "str" /\ StrLess(a.v, b.v)

\* C8: when group_badges returns, no group is empty, the keys are exactly the
\* issuer names of the input, the keys of ISSUER_ORDER come first in
\* ISSUER_ORDER's order, and the other keys follow in ascending order.
GroupOrder ==
  pc = "grouped" =>
    /\ \A i \in DOMAIN grouped : Len(grouped[i].v) >= 1
    /\ {grouped[i].k : i \in DOMAIN grouped} = {issuer_name(b) : b \in Elems(badges.v)}
    /\ \A i, j \in DOMAIN grouped : i < j => Precedes(grouped[i].k, grouped[j].k)

GroupOrderSeen ==
  /\ pc = "grouped" /\ Len(badges.v) = 3
  /\ issuer_name(badges.v[1]) = Str(Zeta)
  /\ issuer_name(badges.v[2]) = Str(Acme)
  /\ issuer_name(badges.v[3]) = Str(Isovalent)
  /\ [i \in DOMAIN grouped |-> grouped[i].k] = <<Str(Isovalent), Str(Acme), Str(Zeta)>>

SameDate(seq, d) == SelectSeq(seq, LAMBDA b : DateKey(b) = d)

\* C9: when group_badges returns, in every group no badge has a smaller date
\* than its successor (no date counting as ""), and the badges of one date
\* are in the order they have in the input.
WithinGroupOrder ==
  pc = "grouped" =>
    \A i \in DOMAIN grouped :
      LET g == grouped[i].v
          input == SelectSeq(badges.v, LAMBDA b : issuer_name(b) = grouped[i].k)
      IN /\ \A j \in 1..(Len(g) - 1) : ~StrLess(DateKey(g[j]).v, DateKey(g[j + 1]).v)
         /\ \A b \in Elems(g) : SameDate(g, DateKey(b)) = SameDate(input, DateKey(b))

WithinGroupSeen ==
  /\ pc = "grouped" /\ Len(grouped) = 1 /\ Len(grouped[1].v) = 3
  /\ DateKey(badges.v[1]) = Str(<<>>)
  /\ DateKey(badges.v[2]) = DateKey(badges.v[3])
  /\ badges.v[2] # badges.v[3]
  /\ grouped[1].v = <<badges.v[2], badges.v[3], badges.v[1]>>

\* C10: a step from a document with both markers leads to a document with
\* both markers and the first start marker at the same offset, and
\* update_readme on such a document does not end with the missing-marker
\* error.
MarkersPersist ==
  [][HasBoth(readme) =>
       /\ HasBoth(readme')
       /\ find(readme', START_MARKER) = find(readme, START_MARKER)
       /\ err' # "markers"]_vars

MarkersPersistSeen ==
  /\ runs = 2 /\ UpdateRan /\ wrote /\ prev.returned /\ prev.data # badges
  /\ HasBoth(readme) /\ readme # before

====
